---- MODULE Spec2Model ----
(***************************************************************************)
(* TraceLens front end: the consent-gated analysis flow (AnalysisFlow and  *)
(* ConsentManagement), and the dashboard's job poller (AnalysisDashboard,  *)
(* the useAnalysis hook and apiService), as state machines.                *)
(*                                                                         *)
(* Every asynchronous handler is split at its awaits: one action runs the  *)
(* handler up to the request it sends, one action runs the continuation    *)
(* when the response arrives.  React state set in a handler is visible to  *)
(* the next event (React flushes state after each discrete event).         *)
(***************************************************************************)
EXTENDS Integers, Sequences, FiniteSets, TLC

VARIABLES
    \* ---- the page
    pageAlive,          \* FALSE once the document has been unloaded
    navPending,         \* window.location.href was assigned
    redirects,          \* number of assignments to window.location.href
    \* ---- AnalysisFlow (app/terms/page.tsx, second component)
    currentStage,       \* 'input' | 'consent' | 'processing' | 'complete'
    analysisData,       \* [target, useCase]: the two required text fields
    consentProcessId,
    progress,
    flowIsLoading,
    results,            \* AnalysisFlow.results: TRUE once setResults(response.data)
    processingSteps,    \* number of entries of processingSteps
    analyzeReq,         \* POST /api/analyze requests in flight
    \* ---- ConsentManagement (components/ConnectionStatus.tsx, second component)
    consentSteps,       \* [0..4 -> BOOLEAN]: the granted flag of each step
    currentStep,
    consentIsLoading,
    processId,
    initReq,            \* initiate-consent-process request in flight
    consentReq,         \* the process-consent-step request in flight, or NoReq
    \* ---- the consent backend and the history the claims speak about
    backendConsent,     \* [0..4 -> BOOLEAN]: grants the backend acknowledged
    lastOutcome,        \* outcome of the last process-consent-step response
    completeCalls,      \* invocations of onConsentComplete
    analyzeCalls,       \* invocations of analysisAPI.performAnalysis
    \* ---- AnalysisDashboard (components/ConnectionStatus.tsx, third component)
    url,                \* the input field, a sequence of characters
    urlError,
    traceLensUser,      \* the profile of useAuth(), or NoUser
    \* ---- useAnalysis (lib/useAnalysis.ts)
    currentSession,     \* NoSession or [id, status, results, error]
    isLoading,
    error,
    isPolling,
    pollingIntervalRef, \* the job whose poll the live interval calls, or NoJob
    maxPollAttemptsRef,
    timeoutPending,     \* jobs whose setTimeout(poll, 2000) has not fired yet
    \* ---- requests in flight and the analysis backend
    startReq,           \* the POST /api/analysis/start in flight, or NoReq
    statusReqs,         \* [job -> [status at send time -> number in flight]]
    resultsReqs,        \* [job -> number of GET results in flight]
    deleteReq,          \* the DELETE in flight, or NoReq
    serverStatus,       \* [job -> status of the job on the backend]
    jobsStarted,        \* jobs the backend has accepted
    \* ---- history the claims speak about
    stopSeen,           \* jobs for which a terminal status or the ceiling was seen
    completedSeen,      \* jobs for which a 'completed' status response arrived
    cancelled,          \* jobs discarded by clearSession or a successful delete
    resultsSent,        \* [job -> number of GET results sent]
    lastPost,           \* the input of the last POST /api/analysis/start, or NoPost
    submitted,          \* the field's content went through handleStartAnalysis
    lastFailure,        \* the last 'failed' status payload: [job, error], or NoFailure
    resultsSeen,        \* jobs whose results request succeeded with a payload
    failStreak,         \* failed status checks since the last successful one
    \* ---- the timers of startPolling on the window's clock (seconds)
    clock,
    pollStart,          \* when startPolling was last called, or Never
    timeoutAt,          \* when the pending setTimeout fires, or Never
    intervalAt,         \* when the live setInterval ticks next, or Never
    requestTimes,       \* send times of the status requests since pollStart
    \* ---- the response error handlers of lib/api.ts
    apiError,           \* the last rejected response, or NoApiError
    toastFirst,         \* what the first version of the handler showed for it
    toastSecond,        \* what the second version of the handler showed for it
    \* ---- the database (database/schema.sql)
    dbNow,              \* NOW(), in hours
    users,              \* ids of the rows of users
    temporaryAnalyses,  \* rows of temporary_analyses
    userSessions,       \* rows of user_sessions
    auditLogs,          \* rows of audit_logs
    consentLogs,        \* rows of consent_logs
    nextRowId,          \* ids handed out so far
    lastCall,           \* the last statement run: [name, runs]
    \* ---- AuthProvider (lib/auth-context.tsx)
    authProvider,       \* [user, loading, firestoreError]
    docCalls,           \* [caller -> the run of createOrUpdateUserDoc]
    \* ---- AuthenticationFlow (the registration page)
    authFlow,           \* the component's state, by the names of its useState
    authReq,            \* the request of the page in flight, or NoReq
    codeHistory         \* [registrations, failures since a code was last sent]

flowVars == <<currentStage, analysisData, consentProcessId, progress,
              flowIsLoading, results, processingSteps, analyzeReq>>
consentVars == <<consentSteps, currentStep, consentIsLoading, processId,
                 initReq, consentReq, backendConsent, lastOutcome,
                 completeCalls, analyzeCalls>>
pageVars == <<pageAlive, navPending, redirects>>
dashVars == <<url, urlError, traceLensUser>>
hookVars == <<currentSession, isLoading, error, isPolling, pollingIntervalRef,
              maxPollAttemptsRef, timeoutPending>>
netVars == <<startReq, statusReqs, resultsReqs, deleteReq, serverStatus,
             jobsStarted>>
histVars == <<stopSeen, completedSeen, cancelled, resultsSent, lastPost,
              submitted>>
respVars == <<lastFailure, resultsSeen, failStreak>>
pollVars == <<dashVars, hookVars, netVars, histVars>>
uiVars == <<pageVars, flowVars, consentVars, pollVars, respVars>>
timerVars == <<clock, pollStart, timeoutAt, intervalAt, requestTimes>>
apiVars == <<apiError, toastFirst, toastSecond>>
dbVars == <<dbNow, users, temporaryAnalyses, userSessions, auditLogs,
            consentLogs, nextRowId, lastCall>>
authVars == <<authProvider, docCalls>>
regVars == <<authFlow, authReq, codeHistory>>
vars == <<uiVars, timerVars, apiVars, dbVars, authVars, regVars>>

(***************************************************************************)
(* Bounds                                                                  *)
(***************************************************************************)
\* Redirects counted before the model stops offering 401 answers.
MaxRedirects == 2
\* Calls of onConsentComplete counted.
MaxCalls == 2

Min(a, b) == IF a < b THEN a ELSE b

NoReq == [kind |-> "none"]

(***************************************************************************)
(* The page: the response interceptors assign window.location.href on a    *)
(* 401; the document is unloaded some time later.                          *)
(***************************************************************************)
\* The status classes a response can have, as the interceptors see them.
HttpOutcomes == {"ok", "nack", "err", "http401"}

\* api.interceptors.response: a 401 assigns window.location.href.
Intercept(outcome) ==
    IF outcome = "http401"
    THEN /\ redirects' = redirects + 1
         /\ navPending' = TRUE
         /\ UNCHANGED pageAlive
    ELSE UNCHANGED pageVars

\* An outcome the model still offers: 401s stop once MaxRedirects are counted.
Offered(outcome) == outcome = "http401" => redirects < MaxRedirects

\* The navigation started by the interceptor commits: the document, its
\* timers and its pending callbacks are gone.
Unload ==
    /\ pageAlive
    /\ navPending
    /\ pageAlive' = FALSE
    /\ UNCHANGED <<navPending, redirects>>

(***************************************************************************)
(* ConsentManagement                                                       *)
(***************************************************************************)
StepIndexes == 0..4
\* consentSteps[i].required of the initial useState value.
Required(i) == i \in {0, 1, 2}

\* The text fields of the input stage, by what the guards read of them:
\* the length and the length after trim().
FieldValues ==
    { [len |-> 0,  trimmed |-> 0],      \* ''
      [len |-> 12, trimmed |-> 0],      \* twelve blanks
      [len |-> 5,  trimmed |-> 5],      \* 'short'
      [len |-> 12, trimmed |-> 12] }    \* a real description

\* updatedSteps of handleConsentChange: the closure's consentSteps with the
\* changed step replaced.
UpdatedSteps(steps, stepIndex, granted) ==
    [i \in StepIndexes |-> IF i = stepIndex THEN granted ELSE steps[i]]

AllRequiredGrantedAnyGrant(steps, stepIndex, granted) ==
    \A i \in {j \in StepIndexes : Required(j)} :
        UpdatedSteps(steps, stepIndex, granted)[i] \/ granted

\* allRequiredGranted of handleConsentChange: every required step of
\* updatedSteps is granted, or is the step being granted now.
AllRequiredGranted(steps, stepIndex, granted) ==
    \A i \in {j \in StepIndexes : Required(j)} :
        UpdatedSteps(steps, stepIndex, granted)[i] \/ (i = stepIndex /\ granted)

ConsentAckedLoose(outcome) == outcome \in {"ok", "nack"}

\* handleConsentChange takes its success branch: the call resolved (2xx) and
\* response.data.success is truthy.
ConsentAcked(outcome) == outcome = "ok"

HandleInputSubmitSkipsConsent ==
    /\ pageAlive
    /\ currentStage = "input"
    /\ analysisData.target.trimmed # 0
    /\ analysisData.useCase.trimmed # 0
    /\ analysisData.target.len >= 10
    /\ currentStage' = "processing"
    /\ initReq' = TRUE
    /\ UNCHANGED <<pageVars, analysisData, consentProcessId, progress,
                   flowIsLoading, results, processingSteps, analyzeReq,
                   consentSteps, currentStep, consentIsLoading, processId,
                   consentReq, backendConsent, lastOutcome, completeCalls,
                   analyzeCalls, pollVars>>
    /\ UNCHANGED <<respVars, timerVars, apiVars, dbVars, authVars, regVars>>

\* AnalysisFlow.handleInputSubmit; entering 'consent' mounts ConsentManagement,
\* whose effect sends initiate-consent-process.
HandleInputSubmit ==
    /\ pageAlive
    /\ currentStage = "input"
    /\ analysisData.target.trimmed # 0
    /\ analysisData.useCase.trimmed # 0
    /\ analysisData.target.len >= 10
    /\ currentStage' = "consent"
    /\ initReq' = TRUE
    /\ UNCHANGED <<pageVars, analysisData, consentProcessId, progress,
                   flowIsLoading, results, processingSteps, analyzeReq,
                   consentSteps, currentStep, consentIsLoading, processId,
                   consentReq, backendConsent, lastOutcome, completeCalls,
                   analyzeCalls, pollVars>>
    /\ UNCHANGED <<respVars, timerVars, apiVars, dbVars, authVars, regVars>>

\* The onChange handlers of the two required text areas.
EditInput ==
    /\ pageAlive
    /\ currentStage = "input"
    /\ \E t \in FieldValues, u \in FieldValues :
           analysisData' = [target |-> t, useCase |-> u]
    /\ UNCHANGED <<pageVars, currentStage, consentProcessId, progress,
                   flowIsLoading, results, processingSteps, analyzeReq,
                   consentVars, pollVars>>
    /\ UNCHANGED <<respVars, timerVars, apiVars, dbVars, authVars, regVars>>

\* initializeConsentProcess after its await.
InitConsentResponse ==
    /\ pageAlive
    /\ initReq
    /\ \E outcome \in HttpOutcomes :
        /\ Offered(outcome)
        /\ Intercept(outcome)
        /\ processId' = IF outcome = "ok" THEN "proc" ELSE processId
    /\ initReq' = FALSE
    /\ UNCHANGED <<flowVars, consentSteps, currentStep, consentIsLoading,
                   consentReq, backendConsent, lastOutcome, completeCalls,
                   analyzeCalls, pollVars>>
    /\ UNCHANGED <<respVars, timerVars, apiVars, dbVars, authVars, regVars>>

\* handleConsentChange up to its await: the Grant button of any step, the
\* Withdraw button of a granted step; both disabled while isLoading.
ConsentClick ==
    /\ pageAlive
    /\ currentStage = "consent"
    /\ ~consentIsLoading
    /\ \E stepIndex \in StepIndexes, granted \in BOOLEAN :
        /\ ~granted => consentSteps[stepIndex]
        /\ consentReq' = [kind |-> "step", stepIndex |-> stepIndex,
                          granted |-> granted, steps |-> consentSteps,
                          currentStep |-> currentStep, processId |-> processId]
    /\ consentIsLoading' = TRUE
    /\ UNCHANGED <<pageVars, flowVars, consentSteps, currentStep, processId,
                   initReq, backendConsent, lastOutcome, completeCalls,
                   analyzeCalls, pollVars>>
    /\ UNCHANGED <<respVars, timerVars, apiVars, dbVars, authVars, regVars>>

HandleConsentCompleteNoStage(pid) ==
    /\ consentProcessId' = pid
    /\ flowIsLoading' = TRUE
    /\ progress' = 25
    /\ processingSteps' = processingSteps + 1
    /\ analyzeReq' = analyzeReq + 1
    /\ analyzeCalls' = Min(analyzeCalls + 1, MaxCalls)
    /\ completeCalls' = Min(completeCalls + 1, MaxCalls)
    /\ UNCHANGED <<currentStage, analysisData, results>>

\* AnalysisFlow.handleConsentComplete, and performAnalysis up to its await.
HandleConsentComplete(pid) ==
    /\ consentProcessId' = pid
    /\ currentStage' = "processing"
    /\ flowIsLoading' = TRUE
    /\ progress' = 25
    /\ processingSteps' = processingSteps + 1
    /\ analyzeReq' = analyzeReq + 1
    /\ analyzeCalls' = Min(analyzeCalls + 1, MaxCalls)
    /\ completeCalls' = Min(completeCalls + 1, MaxCalls)
    /\ UNCHANGED <<analysisData, results>>

\* handleConsentChange after its await.  The request is answered by the
\* backend (which records an accepted write) and the continuation runs.
ConsentResponse ==
    /\ pageAlive
    /\ consentReq # NoReq
    /\ \E outcome \in HttpOutcomes :
        /\ Offered(outcome)
        /\ Intercept(outcome)
        /\ lastOutcome' = outcome
        /\ backendConsent' =
              IF outcome = "ok"
              THEN [backendConsent EXCEPT ![consentReq.stepIndex] = consentReq.granted]
              ELSE backendConsent
        /\ IF ConsentAcked(outcome)
           THEN /\ consentSteps' = [consentSteps EXCEPT
                                       ![consentReq.stepIndex] = consentReq.granted]
                /\ currentStep' =
                      IF consentReq.granted /\ consentReq.stepIndex = consentReq.currentStep
                      THEN Min(currentStep + 1, 4)
                      ELSE currentStep
                /\ IF AllRequiredGranted(consentReq.steps, consentReq.stepIndex,
                                         consentReq.granted)
                   THEN HandleConsentComplete(consentReq.processId)
                   ELSE UNCHANGED <<flowVars, completeCalls, analyzeCalls>>
           ELSE UNCHANGED <<consentSteps, currentStep, flowVars, completeCalls,
                            analyzeCalls>>
    /\ consentReq' = NoReq
    /\ consentIsLoading' = FALSE
    /\ UNCHANGED <<processId, initReq, pollVars>>
    /\ UNCHANGED <<respVars, timerVars, apiVars, dbVars, authVars, regVars>>

\* performAnalysis after its await: an approved analysis adds four steps and
\* completes the flow, a rejected one adds one or two steps (by its reason),
\* a thrown error adds one.
AnalysisResponse ==
    /\ pageAlive
    /\ analyzeReq > 0
    /\ \E outcome \in HttpOutcomes :
        /\ Offered(outcome)
        /\ Intercept(outcome)
        /\ IF outcome = "ok"
           THEN /\ progress' = 100
                /\ processingSteps' = processingSteps + 4
                /\ results' = TRUE
                /\ currentStage' = "complete"
           ELSE /\ \E added \in (IF outcome = "nack" THEN {1, 2} ELSE {1}) :
                      processingSteps' = processingSteps + added
                /\ UNCHANGED <<progress, results, currentStage>>
    /\ analyzeReq' = analyzeReq - 1
    /\ flowIsLoading' = FALSE
    /\ UNCHANGED <<analysisData, consentProcessId, consentVars, pollVars>>
    /\ UNCHANGED <<respVars, timerVars, apiVars, dbVars, authVars, regVars>>

(***************************************************************************)
(* Strings: a URL is a sequence of characters                              *)
(***************************************************************************)
HTTP == <<"h", "t", "t", "p", ":", "/", "/">>
HTTPS == <<"h", "t", "t", "p", "s", ":", "/", "/">>

\* What the user may have typed into the URL field.
UrlInputs ==
    { <<>>,
      <<" ">>,
      <<" ", " ">>,
      <<"x">>,
      <<"x", ".", "c", "o">>,
      HTTP,
      HTTPS,
      <<"h", "t", "t", "p", ":", "/", "x">>,
      <<"h", "t", "t", "p", "s", "/", "/", "x">>,
      <<"H", "T", "T", "P", ":", "/", "/", "x">>,
      <<"f", "t", "p", ":", "/", "/", "x">>,
      <<" ">> \o HTTPS \o <<"x">>,
      HTTPS \o <<" ">>,
      HTTP \o <<"x">>,
      HTTPS \o <<"x">>,
      HTTPS \o <<"x", " ">> }

\* A URL the backend can analyse.
GoodUrl == HTTPS \o <<"x">>

RECURSIVE TrimStart(_)
TrimStart(s) ==
    IF s # <<>> /\ Head(s) = " " THEN TrimStart(Tail(s)) ELSE s

RECURSIVE TrimEnd(_)
TrimEnd(s) ==
    IF s # <<>> /\ s[Len(s)] = " " THEN TrimEnd(SubSeq(s, 1, Len(s) - 1)) ELSE s

\* String.prototype.trim
Trim(s) == TrimEnd(TrimStart(s))

\* String.prototype.startsWith
StartsWith(s, prefix) ==
    /\ Len(s) >= Len(prefix)
    /\ SubSeq(s, 1, Len(prefix)) = prefix

\* The pattern without its ^ anchor.
UrlPatternTestUnanchored(inputUrl) ==
    \E i \in 1..Len(inputUrl) :
        LET rest == SubSeq(inputUrl, i, Len(inputUrl)) IN
        \/ StartsWith(rest, HTTP) /\ Len(rest) > Len(HTTP)
        \/ StartsWith(rest, HTTPS) /\ Len(rest) > Len(HTTPS)

\* /^https?:\/\/.+/.test(inputUrl) of validateUrl: the scheme, then at least
\* one more character.
UrlPatternTest(inputUrl) ==
    \/ StartsWith(inputUrl, HTTP) /\ Len(inputUrl) > Len(HTTP)
    \/ StartsWith(inputUrl, HTTPS) /\ Len(inputUrl) > Len(HTTPS)

MsgInvalidUrl == "Please enter a valid URL starting with http:// or https://"
MsgUrlRequired == "URL is required"
MsgUrlScheme == "URL must start with http:// or https://"
MsgStartFailed == "Failed to start analysis"
MsgTimeout == "Analysis timeout. Please try again."
MsgStatusFailed == "Failed to check analysis status"
MsgConnection == "Connection error during analysis"
MsgAnalysisFailed == "Analysis failed"

\* AnalysisDashboard.validateUrl
ValidateUrl(inputUrl) ==
    IF ~UrlPatternTest(inputUrl) THEN MsgInvalidUrl ELSE ""

\* The validation of apiService.analysis.start before it posts: "" when the
\* request is sent, else the message of the Error it throws.
ApiStartCheck(u) ==
    IF Len(Trim(u)) = 0 THEN MsgUrlRequired
    ELSE IF ~StartsWith(Trim(u), HTTP) /\ ~StartsWith(Trim(u), HTTPS)
         THEN MsgUrlScheme
         ELSE ""

\* The validation of useAnalysis.startAnalysis, then that of the API layer.
StartCheck(u) ==
    IF Len(u) = 0 \/ Len(Trim(u)) = 0 THEN MsgUrlRequired ELSE ApiStartCheck(u)

(***************************************************************************)
(* The dashboard and the hook                                              *)
(***************************************************************************)
\* Jobs one page starts before the model stops.
MaxJobs == 1
\* Further jobs started on the page where starting again is followed.
MaxRestarts == 1
\* Status requests in flight at once.
MaxInFlight == 2
\* Polls made for one job in the specification without the ceiling.
MaxTicks == 6
\* Polls the model follows past the ceiling.
CeilingSlack == 1
\* The ceiling of startPolling.poll: 20 minutes of 5 second intervals.
PollCeiling == 240
\* Failed checks are tolerated while fewer polls than this were made.
FailureThreshold == 5
\* A free account's analyses per day.
DailyLimit == 3

Jobs == 1..(MaxJobs + MaxRestarts)
NoJob == 0
NoSession == [id |-> NoJob]
NoUser == [subscriptionTier |-> "none"]
NoPost == <<"-">>

\* The profiles useAuth() can deliver.
Profiles ==
    [subscriptionTier : {"free", "premium"}, dailyUsage : {0, DailyLimit - 1, DailyLimit}]
PaidProfile == [subscriptionTier |-> "premium", dailyUsage |-> 0]

\* The error texts a 'failed' status or a rejected start can carry; "" when
\* the payload has none.
BackendErrors == {"", "scrape blocked"}

\* A results payload, by what renderResults reads of it for the privacy
\* score field: whether privacy_analysis.privacy_score is there, and its value.
NoResults == [present |-> FALSE, hasScore |-> FALSE, privacy_score |-> 0]
ResultsPayloads ==
    {[present |-> TRUE, hasScore |-> FALSE, privacy_score |-> 0]}
    \cup {[present |-> TRUE, hasScore |-> TRUE, privacy_score |-> n] : n \in {0, 7, 100}}

NoFailure == [job |-> 0, error |-> ""]

\* The privacy score field of renderResults:
\* {results.privacy_analysis?.privacy_score || 'N/A'}/100.  A missing score
\* and every falsy score render the fallback text.
PrivacyScoreField(payload) ==
    IF payload.hasScore /\ payload.privacy_score # 0
    THEN [text |-> "number", number |-> payload.privacy_score]
    ELSE [text |-> "N/A", number |-> 0]

Session(j, status) ==
    [id |-> j, status |-> status, results |-> NoResults, error |-> ""]

\* The statuses of a job on the backend.
JobStatuses == {"pending", "processing", "completed", "failed"}
Rank(status) ==
    CASE status = "pending" -> 0
      [] status = "processing" -> 1
      [] OTHER -> 2

\* The statuses a request sent when the job was in `sent` can report when its
\* response arrives with the job in `now`: the job went pending, processing,
\* then completed or failed, and the request was served somewhere between.
Served(sent, now) ==
    { s \in JobStatuses :
        /\ now \in JobStatuses
        /\ Rank(sent) <= Rank(s)
        /\ Rank(s) <= Rank(now)
        /\ Rank(s) = 2 => s = now }

InFlight ==
    LET perJob(j) == statusReqs[j]["pending"] + statusReqs[j]["processing"]
                     + statusReqs[j]["completed"] + statusReqs[j]["failed"]
        RECURSIVE sum(_)
        sum(n) == IF n = 0 THEN 0 ELSE perJob(n) + sum(n - 1)
    IN sum(MaxJobs + MaxRestarts)

\* The onChange handler of the URL field.
TypeUrl(inputs) ==
    /\ pageAlive
    /\ \E u \in inputs : url' = u
    /\ urlError' = ""
    /\ submitted' = FALSE
    /\ UNCHANGED <<pageVars, flowVars, consentVars, traceLensUser, hookVars,
                   netVars, stopSeen, completedSeen, cancelled, resultsSent,
                   lastPost>>
    /\ UNCHANGED <<respVars, timerVars, apiVars, dbVars, authVars, regVars>>

\* The auth context delivers (or refreshes) the profile.
ProfileLoaded(profiles) ==
    /\ pageAlive
    /\ \E profile \in profiles : traceLensUser' = profile
    /\ UNCHANGED <<pageVars, flowVars, consentVars, url, urlError, hookVars,
                   netVars, histVars>>
    /\ UNCHANGED <<respVars, timerVars, apiVars, dbVars, authVars, regVars>>

UsageAllowsAtLimit(user) ==
    ~(user.subscriptionTier = "free" /\ user.dailyUsage > DailyLimit)

\* The daily usage check of handleStartAnalysis.
UsageAllows(user) ==
    ~(user.subscriptionTier = "free" /\ user.dailyUsage >= DailyLimit)

\* A click that gets as far as the POST.
WouldPost(u, user) ==
    /\ ValidateUrl(u) = ""
    /\ user # NoUser
    /\ UsageAllows(user)
    /\ StartCheck(u) = ""

\* AnalysisDashboard.handleStartAnalysis, useAnalysis.startAnalysis and
\* apiService.analysis.start up to the POST.  The button is disabled while
\* isLoading or while the field is blank.  The model follows jobCap jobs.
ClickStart(jobCap) ==
    /\ pageAlive
    /\ ~isLoading
    /\ Len(Trim(url)) # 0
    /\ WouldPost(url, traceLensUser) => jobsStarted < jobCap
    /\ IF ValidateUrl(url) # ""
       THEN /\ urlError' = ValidateUrl(url)
            /\ UNCHANGED <<error, isLoading, startReq, lastPost>>
       ELSE IF traceLensUser = NoUser \/ ~UsageAllows(traceLensUser)
       THEN UNCHANGED <<urlError, error, isLoading, startReq, lastPost>>
       ELSE IF StartCheck(url) # ""
       THEN /\ urlError' = ""
            /\ error' = StartCheck(url)
            /\ UNCHANGED <<isLoading, startReq, lastPost>>
       ELSE /\ urlError' = ""
            /\ error' = "none"
            /\ isLoading' = TRUE
            /\ startReq' = [kind |-> "start", url |-> Trim(url)]
            /\ lastPost' = url
    /\ submitted' = TRUE
    /\ UNCHANGED <<pageVars, flowVars, consentVars, url, traceLensUser,
                   currentSession, isPolling, pollingIntervalRef,
                   maxPollAttemptsRef, timeoutPending, statusReqs, resultsReqs,
                   deleteReq, serverStatus, jobsStarted, stopSeen,
                   completedSeen, cancelled, resultsSent>>
    /\ UNCHANGED <<respVars, timerVars, apiVars, dbVars, authVars, regVars>>

StartAcceptedAnySuccess(outcome, hasId) == outcome \in {"ok", "nack"}

\* The test of startAnalysis on the value apiService.analysis.start returned:
\* response.success && response.session_id.  analysis.start returns only a
\* 2xx payload with success, and throws for everything else.
StartAccepted(outcome, hasId) == outcome = "ok" /\ hasId

\* startAnalysis after its await.  The backend answers; a success payload
\* that carries a session id is that of a job the backend created.  On an accepted response the hook
\* stores the session and calls startPolling, which resets the attempt
\* counter, replaces the interval and adds a timeout; handleStartAnalysis
\* then clears the field.  Otherwise the hook sets the error and rethrows.
StartResponse ==
    /\ pageAlive
    /\ startReq # NoReq
    /\ \E outcome \in HttpOutcomes, msg \in BackendErrors, hasId \in BOOLEAN :
        LET j == jobsStarted + 1 IN
        /\ Offered(outcome)
        /\ Intercept(outcome)
        /\ outcome = "ok" => msg = ""
        /\ hasId => outcome = "ok"
        /\ IF outcome = "ok" /\ hasId
           THEN /\ jobsStarted' = j
                /\ serverStatus' = [serverStatus EXCEPT ![j] = "pending"]
           ELSE UNCHANGED <<jobsStarted, serverStatus>>
        /\ IF StartAccepted(outcome, hasId)
           THEN /\ currentSession' = Session(j, "pending")
                /\ isPolling' = TRUE
                /\ maxPollAttemptsRef' = 0
                /\ pollingIntervalRef' = j
                /\ timeoutPending' = timeoutPending \cup {j}
                /\ url' = <<>>
                /\ submitted' = FALSE
                /\ failStreak' = 0
                /\ UNCHANGED error
           ELSE /\ error' = IF msg # "" THEN msg ELSE MsgStartFailed
                /\ UNCHANGED <<currentSession, isPolling, maxPollAttemptsRef,
                               pollingIntervalRef, timeoutPending, url,
                               submitted, failStreak>>
    /\ isLoading' = FALSE
    /\ startReq' = NoReq
    /\ UNCHANGED <<flowVars, consentVars, urlError, traceLensUser, statusReqs,
                   resultsReqs, deleteReq, stopSeen, completedSeen, cancelled,
                   resultsSent, lastPost, lastFailure, resultsSeen>>
    /\ UNCHANGED <<timerVars, apiVars, dbVars, authVars, regVars>>

\* stopPolling
StopPolling ==
    /\ isPolling' = FALSE
    /\ pollingIntervalRef' = NoJob

\* poll up to its await: count the attempt and send GET status.
PollSend(j) ==
    /\ maxPollAttemptsRef' = maxPollAttemptsRef + 1
    /\ statusReqs' = [statusReqs EXCEPT ![j][serverStatus[j]] = @ + 1]

\* The setTimeout(poll, 2000) of startPolling fires: nothing ever clears it.
TimeoutFire(tickCap) ==
    /\ pageAlive
    /\ maxPollAttemptsRef < tickCap
    /\ InFlight < MaxInFlight
    /\ \E j \in timeoutPending :
        /\ timeoutPending' = timeoutPending \ {j}
        /\ PollSend(j)
    /\ UNCHANGED <<pageVars, flowVars, consentVars, dashVars, currentSession,
                   isLoading, error, isPolling, pollingIntervalRef, startReq,
                   resultsReqs, deleteReq, serverStatus, jobsStarted, histVars>>
    /\ UNCHANGED <<respVars, timerVars, apiVars, dbVars, authVars, regVars>>

\* The setInterval(poll, 5000) of startPolling ticks.  It was created together
\* with a 2 second timeout, which has fired before the first 5 second tick.
IntervalFire(tickCap) ==
    /\ pageAlive
    /\ maxPollAttemptsRef < tickCap
    /\ InFlight < MaxInFlight
    /\ pollingIntervalRef # NoJob
    /\ timeoutPending = {}
    /\ PollSend(pollingIntervalRef)
    /\ UNCHANGED <<pageVars, flowVars, consentVars, dashVars, currentSession,
                   isLoading, error, isPolling, pollingIntervalRef,
                   timeoutPending, startReq, resultsReqs, deleteReq,
                   serverStatus, jobsStarted, histVars>>
    /\ UNCHANGED <<respVars, timerVars, apiVars, dbVars, authVars, regVars>>

\* apiService.analysis.getStatus returns its payload only for a 2xx response
\* with success; for everything else it throws, so poll's branch for a
\* returned payload without success is never taken.
GetStatusReturns(outcome) == outcome = "ok"

PollFailedDefaultText(j, msg) ==
    /\ error' = MsgAnalysisFailed
    /\ currentSession' = [Session(j, "failed") EXCEPT !.error = msg]
    /\ StopPolling
    /\ stopSeen' = stopSeen \cup {j}
    /\ UNCHANGED <<resultsReqs, resultsSent, completedSeen>>

\* poll, status 'failed': the payload's error (or the default text) becomes
\* the hook's error, the session carries it, polling stops.
PollFailed(j, msg) ==
    /\ error' = IF msg # "" THEN msg ELSE MsgAnalysisFailed
    /\ currentSession' = [Session(j, "failed") EXCEPT !.error = msg]
    /\ StopPolling
    /\ stopSeen' = stopSeen \cup {j}
    /\ UNCHANGED <<resultsReqs, resultsSent, completedSeen>>

\* poll, status 'completed', up to the await of getResults.
PollCompleted(j) ==
    /\ currentSession' = Session(j, "completed")
    /\ resultsReqs' = [resultsReqs EXCEPT ![j] = @ + 1]
    /\ resultsSent' = [resultsSent EXCEPT ![j] = Min(@ + 1, MaxCalls)]
    /\ stopSeen' = stopSeen \cup {j}
    /\ completedSeen' = completedSeen \cup {j}
    /\ UNCHANGED <<error, isPolling, pollingIntervalRef>>

PollRunningMarksFailed(j, status) ==
    /\ IF maxPollAttemptsRef >= PollCeiling
       THEN /\ currentSession' = Session(j, "failed")
            /\ error' = MsgTimeout
            /\ StopPolling
            /\ stopSeen' = stopSeen \cup {j}
       ELSE /\ currentSession' = Session(j, status)
            /\ UNCHANGED <<error, isPolling, pollingIntervalRef, stopSeen>>
    /\ UNCHANGED <<resultsReqs, resultsSent, completedSeen>>

\* poll, any other status: the ceiling check.
PollRunning(j, status) ==
    /\ currentSession' = Session(j, status)
    /\ IF maxPollAttemptsRef >= PollCeiling
       THEN /\ error' = MsgTimeout
            /\ StopPolling
            /\ stopSeen' = stopSeen \cup {j}
       ELSE UNCHANGED <<error, isPolling, pollingIntervalRef, stopSeen>>
    /\ UNCHANGED <<resultsReqs, resultsSent, completedSeen>>

\* poll's catch: tolerated until FailureThreshold polls were made.
PollCatch ==
    /\ IF maxPollAttemptsRef >= FailureThreshold
       THEN /\ error' = MsgConnection
            /\ StopPolling
       ELSE UNCHANGED <<error, isPolling, pollingIntervalRef>>
    /\ UNCHANGED <<currentSession, resultsReqs, resultsSent, stopSeen,
                   completedSeen>>

\* poll after the await of getStatus.
StatusResponse(outcomes) ==
    /\ pageAlive
    /\ \E j \in Jobs, sent \in JobStatuses :
        /\ statusReqs[j][sent] > 0
        /\ statusReqs' = [statusReqs EXCEPT ![j][sent] = @ - 1]
        /\ \E outcome \in outcomes :
            /\ Offered(outcome)
            /\ Intercept(outcome)
            /\ IF GetStatusReturns(outcome)
               THEN \E status \in Served(sent, serverStatus[j]), msg \in BackendErrors :
                      /\ status # "failed" => msg = ""
                      /\ status = "completed" => resultsReqs[j] < MaxInFlight
                      /\ lastFailure' = IF status = "failed"
                                        THEN [job |-> j, error |-> msg]
                                        ELSE lastFailure
                      /\ failStreak' = 0
                      /\ CASE status = "completed" -> PollCompleted(j)
                           [] status = "failed" -> PollFailed(j, msg)
                           [] OTHER -> PollRunning(j, status)
               ELSE /\ PollCatch
                    /\ failStreak' = Min(failStreak + 1, FailureThreshold)
                    /\ UNCHANGED lastFailure
    /\ UNCHANGED <<flowVars, consentVars, dashVars, isLoading,
                   maxPollAttemptsRef, timeoutPending, startReq, deleteReq,
                   serverStatus, jobsStarted, cancelled, lastPost, submitted,
                   resultsSeen>>
    /\ UNCHANGED <<timerVars, apiVars, dbVars, authVars, regVars>>

\* apiService.analysis.getResults returns only for a 2xx response with
\* success; the payload may still lack results.
ResultsOutcomes == {"ok", "empty", "err", "http401"}

ResultsStoredWhenReturned(outcome) == outcome \in {"ok", "empty"}

\* poll stores the payload: resultsResponse.success && resultsResponse.results
ResultsStored(outcome) == outcome = "ok"

\* poll after the await of getResults: store the results in the session
\* object built from the 'completed' response, then stopPolling.
ResultsResponse(outcomes) ==
    /\ pageAlive
    /\ \E j \in Jobs :
        /\ resultsReqs[j] > 0
        /\ resultsReqs' = [resultsReqs EXCEPT ![j] = @ - 1]
        /\ \E outcome \in outcomes :
            /\ Offered(outcome)
            /\ Intercept(outcome)
            /\ outcome = "ok" => serverStatus[j] = "completed"
            /\ \E payload \in ResultsPayloads :
                  currentSession' =
                      IF ResultsStored(outcome)
                      THEN [Session(j, "completed") EXCEPT !.results = payload]
                      ELSE currentSession
            /\ resultsSeen' = IF outcome = "ok" THEN resultsSeen \cup {j}
                                                ELSE resultsSeen
    /\ StopPolling
    /\ UNCHANGED <<flowVars, consentVars, dashVars, isLoading, error,
                   maxPollAttemptsRef, timeoutPending, startReq, statusReqs,
                   deleteReq, serverStatus, jobsStarted, histVars,
                   lastFailure, failStreak>>
    /\ UNCHANGED <<timerVars, apiVars, dbVars, authVars, regVars>>

\* clearSession: the Clear button of the current-analysis card.
ClearSession ==
    /\ pageAlive
    /\ currentSession # NoSession
    /\ currentSession' = NoSession
    /\ error' = "none"
    /\ StopPolling
    /\ cancelled' = cancelled \cup {currentSession.id}
    /\ UNCHANGED <<pageVars, flowVars, consentVars, dashVars, isLoading,
                   maxPollAttemptsRef, timeoutPending, netVars, stopSeen,
                   completedSeen, resultsSent, lastPost, submitted>>
    /\ UNCHANGED <<respVars, timerVars, apiVars, dbVars, authVars, regVars>>

\* handleDeleteAnalysis and deleteAnalysis up to the await: the delete button
\* of the results panel, shown for a completed session with results.
DeleteClick ==
    /\ pageAlive
    /\ deleteReq = NoReq
    /\ currentSession # NoSession
    /\ currentSession.status = "completed"
    /\ currentSession.results.present
    /\ deleteReq' = [kind |-> "delete", sessionId |-> currentSession.id,
                     current |-> currentSession.id]
    /\ UNCHANGED <<pageVars, flowVars, consentVars, dashVars, hookVars,
                   startReq, statusReqs, resultsReqs, serverStatus,
                   jobsStarted, histVars>>
    /\ UNCHANGED <<respVars, timerVars, apiVars, dbVars, authVars, regVars>>

\* deleteAnalysis after its await; currentSession is the one of the render
\* the click happened in.
DeleteResponse ==
    /\ pageAlive
    /\ deleteReq # NoReq
    /\ \E outcome \in HttpOutcomes :
        /\ Offered(outcome)
        /\ Intercept(outcome)
        /\ IF outcome = "ok"
           THEN /\ serverStatus' = [serverStatus EXCEPT ![deleteReq.sessionId] = "deleted"]
                /\ IF deleteReq.current = deleteReq.sessionId
                   THEN /\ currentSession' = NoSession
                        /\ StopPolling
                        /\ cancelled' = cancelled \cup {deleteReq.sessionId}
                   ELSE UNCHANGED <<currentSession, isPolling,
                                    pollingIntervalRef, cancelled>>
           ELSE UNCHANGED <<serverStatus, currentSession, isPolling,
                            pollingIntervalRef, cancelled>>
    /\ deleteReq' = NoReq
    /\ UNCHANGED <<flowVars, consentVars, dashVars, isLoading, error,
                   maxPollAttemptsRef, timeoutPending, startReq, statusReqs,
                   resultsReqs, jobsStarted, stopSeen, completedSeen,
                   resultsSent, lastPost, submitted>>
    /\ UNCHANGED <<respVars, timerVars, apiVars, dbVars, authVars, regVars>>

\* The statuses that can follow `status` on the backend.
Successors(status, ends) ==
    CASE status = "pending" -> {"processing"}
      [] status = "processing" -> ends
      [] OTHER -> {}

\* The backend works on a job: pending, processing, then one of `ends`.
ServerAdvance(ends) ==
    /\ \E j \in Jobs :
        \E status \in Successors(serverStatus[j], ends) :
            serverStatus' = [serverStatus EXCEPT ![j] = status]
    /\ UNCHANGED <<pageVars, flowVars, consentVars, dashVars, hookVars,
                   startReq, statusReqs, resultsReqs, deleteReq, jobsStarted,
                   histVars>>
    /\ UNCHANGED <<respVars, timerVars, apiVars, dbVars, authVars, regVars>>

(***************************************************************************)
(* The timers of startPolling on the window's clock, in seconds            *)
(* (lib/useAnalysis.ts, startPolling and stopPolling).  poll sends one     *)
(* status request each time a timer calls it.                              *)
(***************************************************************************)
\* setTimeout(poll, 2000)
InitialDelay == 2
\* setInterval(poll, 5000)
PollInterval == 5
\* the clock stops at MaxClock
MaxClock == 17
\* no time: the timer is not armed
Never == -1

\* Both timers armed one after the other, the interval counted from the
\* first check instead of from the start.
ArmTimersChained(t) ==
    /\ timeoutAt' = t + InitialDelay
    /\ intervalAt' = t + InitialDelay + PollInterval

\* setTimeout(poll, 2000); pollingIntervalRef.current = setInterval(poll, 5000):
\* both timers are armed in the same task, at time t.
ArmTimers(t) ==
    /\ timeoutAt' = t + InitialDelay
    /\ intervalAt' = t + PollInterval

\* startPolling, called once per started job
TimerStartPolling ==
    /\ pollStart = Never
    /\ pollStart' = clock
    /\ ArmTimers(clock)
    /\ requestTimes' = <<>>
    /\ UNCHANGED <<clock, uiVars, apiVars, dbVars, authVars, regVars>>

\* a second passes; a timer that is due runs before the clock moves on
ClockTick ==
    /\ clock < MaxClock
    /\ timeoutAt # clock
    /\ intervalAt # clock
    /\ clock' = clock + 1
    /\ UNCHANGED <<pollStart, timeoutAt, intervalAt, requestTimes, uiVars,
                   apiVars, dbVars, authVars, regVars>>

\* the one-shot timeout calls poll
TimerTimeoutFire ==
    /\ timeoutAt = clock
    /\ timeoutAt' = Never
    /\ requestTimes' = Append(requestTimes, clock)
    /\ UNCHANGED <<clock, pollStart, intervalAt, uiVars, apiVars, dbVars, authVars, regVars>>

\* the interval calls poll and is due again one period later
TimerIntervalFire ==
    /\ intervalAt = clock
    /\ intervalAt' = clock + PollInterval
    /\ requestTimes' = Append(requestTimes, clock)
    /\ UNCHANGED <<clock, pollStart, timeoutAt, uiVars, apiVars, dbVars, authVars, regVars>>

\* stopPolling: clearInterval; the timeout handle is not kept and stays armed
TimerStopPolling ==
    /\ intervalAt # Never
    /\ intervalAt' = Never
    /\ UNCHANGED <<clock, pollStart, timeoutAt, requestTimes, uiVars,
                   apiVars, dbVars, authVars, regVars>>

NextTimers ==
    \/ TimerStartPolling
    \/ ClockTick
    \/ TimerTimeoutFire
    \/ TimerIntervalFire
    \/ TimerStopPolling

(***************************************************************************)
(* The response error handlers of lib/api.ts.  The file holds two versions *)
(* of the axios client; each registers its own rejection handler.          *)
(***************************************************************************)
MsgSessionExpired == "Session expired. Please sign in again."
MsgAccessDenied == "Access denied. Please check your permissions."
MsgNotFound == "Resource not found."
MsgRateLimit == "Rate limit exceeded. Please wait before trying again."
MsgServerError == "Server error. Please try again later."
MsgGeneric == "An error occurred"
MsgRequestTimeout == "Request timeout. Please check your connection and try again."
MsgNetwork == "Network error. Please check your internet connection."
MsgUnexpected == "An unexpected error occurred. Please try again."
\* no toast was shown
NoToast == ""

\* error.response?.status >= 500
ServerErrorFirst == 500
\* the largest status enumerated
MaxStatus == 599
ServerErrorStatuses == ServerErrorFirst..MaxStatus
ClientErrorStatuses == {400, 401, 403, 404, 422, 429}
\* data.error of the response body: absent, or the backend's text
BodyErrors == {"", "Daily limit reached"}
\* error.code of a rejection that carries no response
TransportCodes == {"ECONNABORTED", "ERR_NETWORK", "ERR_CANCELED"}

NoApiError == [kind |-> "none"]
\* The rejections axios hands to the handler: a response with a status
\* outside 2xx, or no response and an error code.
ApiErrors ==
    [kind : {"response"}, status : ClientErrorStatuses \cup ServerErrorStatuses,
     dataError : BodyErrors]
    \cup [kind : {"transport"}, code : TransportCodes]

Either(text, fallback) == IF text # "" THEN text ELSE fallback

\* The first version of the handler: switch (status) with cases 401, 403,
\* 404, 429, 500/502/503/504 and default; without a response, error.code.
NotifyFirst(e) ==
    IF e.kind = "response"
    THEN CASE e.status = 401 -> MsgSessionExpired
           [] e.status = 403 -> MsgAccessDenied
           [] e.status = 404 -> MsgNotFound
           [] e.status = 429 -> Either(e.dataError, MsgRateLimit)
           [] e.status \in {500, 502, 503, 504} -> MsgServerError
           [] OTHER -> Either(e.dataError, MsgGeneric)
    ELSE CASE e.code = "ECONNABORTED" -> MsgRequestTimeout
           [] e.code = "ERR_NETWORK" -> MsgNetwork
           [] OTHER -> MsgUnexpected

\* The second version of the handler: an if/else chain on 401, 429,
\* status >= 500, ECONNABORTED, ERR_NETWORK, with no final else.
NotifySecond(e) ==
    IF e.kind = "response"
    THEN CASE e.status = 401 -> MsgSessionExpired
           [] e.status = 429 -> MsgRateLimit
           [] e.status >= ServerErrorFirst -> MsgServerError
           [] OTHER -> NoToast
    ELSE CASE e.code = "ECONNABORTED" -> MsgRequestTimeout
           [] e.code = "ERR_NETWORK" -> MsgNetwork
           [] OTHER -> NoToast

\* a request is rejected and the handler of either version runs on it
ApiReject ==
    /\ \E e \in ApiErrors :
        /\ apiError' = e
        /\ toastFirst' = NotifyFirst(e)
        /\ toastSecond' = NotifySecond(e)
    /\ UNCHANGED <<uiVars, timerVars, dbVars, authVars, regVars>>

NextApi == ApiReject

(***************************************************************************)
(* The database (database/schema.sql): the tables with a TTL, the two      *)
(* logs, the cleanup functions and the foreign-key actions.  Timestamps    *)
(* are hours; NOW() is dbNow for a whole statement.  A statement that      *)
(* raises an error leaves every table as it was.                           *)
(***************************************************************************)
\* expires_at DEFAULT (NOW() + INTERVAL '24 hours')
TTLHours == 24
\* the database clock advances in steps of half the TTL up to MaxNow
TickHours == TTLHours \div 2
MaxNow == 24
\* at most MaxUsers users and MaxRowId rows with an id are ever inserted
MaxUsers == 1
MaxRowId == 1
\* rows are added to audit_logs one at a time up to MaxAuditRows
MaxAuditRows == 2
\* successive identical calls are counted up to MaxRuns
MaxRuns == 2

UserIds == 1..MaxUsers
\* NULL in a user_id column
NullUser == 0
Times == {t \in 0..MaxNow : t % TickHours = 0}
\* a column left out of an INSERT: its DEFAULT applies
Default == -2
\* temp_analyses_status_valid allows 'processing', 'completed', 'failed' and
\* 'expired'; no function of the schema tells the first three apart, and
\* 'completed', the column's default, stands for them.
AnalysisStatuses == {"completed", "expired"}
ConsentStatuses == {"granted", "denied", "partial", "withdrawn", "expired"}

\* no call was made since NOW() last advanced
NoCall == [name |-> "none", runs |-> 0]
\* The operation just executed: perform_maintenance_cleanup with the number
\* of times it was called in a row at this NOW(), or any other operation.
Called(name) ==
    IF name = "perform_maintenance_cleanup"
    THEN [name |-> name,
          runs |-> IF lastCall.name = name
                   THEN Min(lastCall.runs + 1, MaxRuns) ELSE 1]
    ELSE [name |-> "other", runs |-> 1]

\* the row initialize_database_config() inserts when the schema is loaded
InitialAuditLog == <<[user_id |-> NullUser, action |-> "database_initialized"]>>

ExpiresFutureOrEqual(created, expires) == expires >= created

\* CONSTRAINT temp_analyses_expires_future / sessions_expires_future
ExpiresFuture(created, expires) == expires > created

\* WHERE expires_at <= NOW() OR status = 'expired'
AnalysisExpired(r) == r.expires_at <= dbNow \/ r.status = "expired"
SessionExpiredByTimeOnly(r) == r.expires_at <= dbNow

\* WHERE expires_at <= NOW() OR is_active = FALSE
SessionExpired(r) == r.expires_at <= dbNow \/ ~r.is_active

DbTick ==
    /\ dbNow + TickHours <= MaxNow
    /\ dbNow' = dbNow + TickHours
    /\ lastCall' = NoCall
    /\ UNCHANGED <<users, temporaryAnalyses, userSessions, auditLogs,
                   consentLogs, nextRowId, uiVars, timerVars, apiVars, authVars, regVars>>

\* INSERT INTO users
InsertUser ==
    /\ \E u \in UserIds \ users : users' = users \cup {u}
    /\ lastCall' = Called("statement")
    /\ UNCHANGED <<dbNow, temporaryAnalyses, userSessions, auditLogs,
                   consentLogs, nextRowId, uiVars, timerVars, apiVars, authVars, regVars>>

\* DELETE FROM users WHERE id = u: ON DELETE CASCADE removes the user's
\* analyses, sessions and consent_logs rows, ON DELETE SET NULL clears
\* user_id on the user's audit_logs rows.
DeleteUser ==
    /\ \E u \in users :
        /\ users' = users \ {u}
        /\ temporaryAnalyses' = {r \in temporaryAnalyses : r.user_id # u}
        /\ userSessions' = {r \in userSessions : r.user_id # u}
        /\ consentLogs' = {r \in consentLogs : r.user_id # u}
        /\ auditLogs' = [i \in DOMAIN auditLogs |->
                            IF auditLogs[i].user_id = u
                            THEN [auditLogs[i] EXCEPT !.user_id = NullUser]
                            ELSE auditLogs[i]]
    /\ lastCall' = Called("statement")
    /\ UNCHANGED <<dbNow, nextRowId, uiVars, timerVars, apiVars, authVars, regVars>>

\* auto_cleanup_on_insert, the AFTER INSERT trigger of temporary_analyses.
\* Its body uses DELETE ... LIMIT, which PostgreSQL rejects, so whether the
\* trigger exists depends on how the script's errors were handled: both
\* outcomes are kept.  LIMIT 10 exceeds the number of rows modelled.
AutoCleanupOnInsert(rows, installed) ==
    IF installed
    THEN {r \in rows : ~(r.expires_at <= dbNow - 1)}
    ELSE rows

\* INSERT INTO temporary_analyses, with created_at and expires_at given or
\* left to their defaults.  defaultCreated and defaultExpiry record which
\* of the two keeps its default.
InsertAnalysis ==
    /\ nextRowId <= MaxRowId
    /\ \E u \in users, c \in Times \cup {Default}, e \in Times \cup {Default},
          status \in AnalysisStatuses, installed \in BOOLEAN :
        LET created == IF c = Default THEN dbNow ELSE c
            expires == IF e = Default THEN dbNow + TTLHours ELSE e
            row == [id |-> nextRowId, user_id |-> u, created_at |-> created,
                    expires_at |-> expires, status |-> status,
                    defaultCreated |-> c = Default,
                    defaultExpiry |-> e = Default]
        IN IF ExpiresFuture(created, expires)
           THEN /\ temporaryAnalyses' =
                       AutoCleanupOnInsert(temporaryAnalyses \cup {row}, installed)
                /\ nextRowId' = nextRowId + 1
           ELSE UNCHANGED <<temporaryAnalyses, nextRowId>>
    /\ lastCall' = Called("statement")
    /\ UNCHANGED <<dbNow, users, userSessions, auditLogs, consentLogs,
                   uiVars, timerVars, apiVars, authVars, regVars>>

\* UPDATE temporary_analyses SET status = ... or SET expires_at = ...
UpdateAnalysis ==
    /\ \E r \in temporaryAnalyses :
        \/ \E status \in AnalysisStatuses \ {r.status} :
              temporaryAnalyses' = (temporaryAnalyses \ {r})
                                     \cup {[r EXCEPT !.status = status]}
        \/ \E e \in Times \ {r.expires_at} :
              temporaryAnalyses' =
                  IF ExpiresFuture(r.created_at, e)
                  THEN (temporaryAnalyses \ {r})
                         \cup {[r EXCEPT !.expires_at = e,
                                         !.defaultExpiry = FALSE]}
                  ELSE temporaryAnalyses
    /\ lastCall' = Called("statement")
    /\ UNCHANGED <<dbNow, users, userSessions, auditLogs, consentLogs,
                   nextRowId, uiVars, timerVars, apiVars, authVars, regVars>>

\* INSERT INTO user_sessions: expires_at has no default
InsertSession ==
    /\ nextRowId <= MaxRowId
    /\ \E u \in users, c \in Times \cup {Default}, e \in Times \cup {dbNow + TTLHours} :
        LET created == IF c = Default THEN dbNow ELSE c
            row == [id |-> nextRowId, user_id |-> u, created_at |-> created,
                    expires_at |-> e, is_active |-> TRUE]
        IN IF ExpiresFuture(created, e)
           THEN /\ userSessions' = userSessions \cup {row}
                /\ nextRowId' = nextRowId + 1
           ELSE UNCHANGED <<userSessions, nextRowId>>
    /\ lastCall' = Called("statement")
    /\ UNCHANGED <<dbNow, users, temporaryAnalyses, auditLogs, consentLogs,
                   uiVars, timerVars, apiVars, authVars, regVars>>

\* UPDATE user_sessions SET is_active = FALSE or SET expires_at = ...
UpdateSession ==
    /\ \E r \in userSessions :
        \/ /\ r.is_active
           /\ userSessions' = (userSessions \ {r})
                                 \cup {[r EXCEPT !.is_active = FALSE]}
        \/ \E e \in Times \ {r.expires_at} :
              userSessions' =
                  IF ExpiresFuture(r.created_at, e)
                  THEN (userSessions \ {r}) \cup {[r EXCEPT !.expires_at = e]}
                  ELSE userSessions
    /\ lastCall' = Called("statement")
    /\ UNCHANGED <<dbNow, users, temporaryAnalyses, auditLogs, consentLogs,
                   nextRowId, uiVars, timerVars, apiVars, authVars, regVars>>

\* INSERT INTO audit_logs (user_id, action)
InsertAuditLog ==
    /\ Len(auditLogs) < MaxAuditRows
    /\ \E u \in users \cup {NullUser} :
        auditLogs' = Append(auditLogs, [user_id |-> u, action |-> "login"])
    /\ lastCall' = Called("statement")
    /\ UNCHANGED <<dbNow, users, temporaryAnalyses, userSessions, consentLogs,
                   nextRowId, uiVars, timerVars, apiVars, authVars, regVars>>

\* INSERT INTO consent_logs; expires_at and updated_at may be NULL (Never)
InsertConsentLog ==
    /\ nextRowId <= MaxRowId
    /\ \E u \in users, status \in ConsentStatuses, e \in Times \cup {Never} :
        /\ consentLogs' = consentLogs \cup
               {[id |-> nextRowId, user_id |-> u, consent_status |-> status,
                 expires_at |-> e, updated_at |-> Never]}
        /\ nextRowId' = nextRowId + 1
    /\ lastCall' = Called("statement")
    /\ UNCHANGED <<dbNow, users, temporaryAnalyses, userSessions, auditLogs,
                   uiVars, timerVars, apiVars, authVars, regVars>>

\* The tables cleanup_expired_analyses() leaves: the expired rows deleted,
\* one audit_logs row added.
AfterCleanupAnalyses(db) ==
    [db EXCEPT !.analyses = {r \in @ : ~AnalysisExpired(r)},
               !.audit = Append(@, [user_id |-> NullUser,
                                    action |-> "cleanup_expired_analyses"])]

\* The tables cleanup_expired_sessions() leaves.
AfterCleanupSessions(db) ==
    [db EXCEPT !.sessions = {r \in @ : ~SessionExpired(r)},
               !.audit = Append(@, [user_id |-> NullUser,
                                    action |-> "cleanup_expired_sessions"])]

\* SELECT COUNT(*) INTO deleted_count FROM deleted, where deleted holds the
\* ids the DELETE of cleanup_expired_sessions() returns.
DeletedCount(db) == Cardinality({r.id : r \in {q \in db.sessions : SessionExpired(q)}})

\* The tables mark_expired_analyses() would leave.
AfterMarkExpired(db) ==
    [db EXCEPT !.analyses =
        {IF r.expires_at <= dbNow /\ r.status # "expired"
         THEN [r EXCEPT !.status = "expired"] ELSE r : r \in @}]

MarkExpiredCompletesAlways == TRUE

\* mark_expired_analyses() sets updated_at, a column temporary_analyses does
\* not have: the UPDATE raises an error every time it is executed.
MarkExpiredCompletes == FALSE

Tables ==
    [analyses |-> temporaryAnalyses, sessions |-> userSessions,
     audit |-> auditLogs]

Store(db) ==
    /\ temporaryAnalyses' = db.analyses
    /\ userSessions' = db.sessions
    /\ auditLogs' = db.audit

\* SELECT * FROM cleanup_expired_analyses()
CleanupExpiredAnalyses ==
    /\ Len(auditLogs) < MaxAuditRows
    /\ Store(AfterCleanupAnalyses(Tables))
    /\ lastCall' = Called("cleanup_expired_analyses")
    /\ UNCHANGED <<dbNow, users, consentLogs, nextRowId, uiVars, timerVars,
                   apiVars, authVars, regVars>>

\* SELECT * FROM cleanup_expired_sessions(): the call returns one row with
\* deleted_count.
CleanupExpiredSessions ==
    /\ Len(auditLogs) < MaxAuditRows
    /\ Store(AfterCleanupSessions(Tables))
    /\ lastCall' = [name |-> "cleanup_expired_sessions", runs |-> 1,
                    deleted_count |-> DeletedCount(Tables)]
    /\ UNCHANGED <<dbNow, users, consentLogs, nextRowId, uiVars, timerVars,
                   apiVars, authVars, regVars>>

\* SELECT * FROM mark_expired_analyses()
MarkExpiredAnalyses ==
    /\ Store(IF MarkExpiredCompletes THEN AfterMarkExpired(Tables) ELSE Tables)
    /\ lastCall' = Called("mark_expired_analyses")
    /\ UNCHANGED <<dbNow, users, consentLogs, nextRowId, uiVars, timerVars,
                   apiVars, authVars, regVars>>

\* SELECT * FROM perform_maintenance_cleanup(): the three functions in
\* order, in one statement; the error of the third undoes the first two.
PerformMaintenanceCleanup ==
    /\ Store(IF MarkExpiredCompletes
             THEN AfterMarkExpired(AfterCleanupSessions(AfterCleanupAnalyses(Tables)))
             ELSE Tables)
    /\ lastCall' = Called("perform_maintenance_cleanup")
    /\ UNCHANGED <<dbNow, users, consentLogs, nextRowId, uiVars, timerVars,
                   apiVars, authVars, regVars>>

\* SELECT * FROM cleanup_expired_consent_logs(); a NULL expires_at never
\* satisfies expires_at <= NOW()
CleanupExpiredConsentLogs ==
    /\ consentLogs' =
          {IF r.expires_at # Never /\ r.expires_at <= dbNow
              /\ r.consent_status # "expired"
           THEN [r EXCEPT !.consent_status = "expired", !.updated_at = dbNow]
           ELSE r : r \in consentLogs}
    /\ lastCall' = Called("cleanup_expired_consent_logs")
    /\ UNCHANGED <<dbNow, users, temporaryAnalyses, userSessions, auditLogs,
                   nextRowId, uiVars, timerVars, apiVars, authVars, regVars>>

\* the tables with a TTL and their maintenance
NextDb ==
    \/ DbTick
    \/ InsertUser
    \/ DeleteUser
    \/ InsertAnalysis
    \/ UpdateAnalysis
    \/ InsertSession
    \/ UpdateSession
    \/ CleanupExpiredAnalyses
    \/ CleanupExpiredSessions
    \/ MarkExpiredAnalyses
    \/ PerformMaintenanceCleanup

\* the two logs and every operation of the schema that writes to them or
\* to the users they reference
NextLogs ==
    \/ DbTick
    \/ InsertUser
    \/ DeleteUser
    \/ InsertAuditLog
    \/ InsertConsentLog
    \/ CleanupExpiredAnalyses
    \/ CleanupExpiredSessions
    \/ PerformMaintenanceCleanup
    \/ CleanupExpiredConsentLogs

(***************************************************************************)
(* AuthProvider (lib/auth-context.tsx): the listener of the auth state,    *)
(* createOrUpdateUserDoc with its retry loop, and retryConnection, the     *)
(* Retry button of the connection banner.  The three Firestore calls of    *)
(* one attempt set no state between them and are answered in one step.     *)
(***************************************************************************)
\* const maxRetries = 3
maxRetries == 3
\* user === null
NoAuthUser == "none"
AuthUsers == {"uid"}
\* firestoreError === null
NoFirestoreError == "none"
MsgUnavailable == "Firestore temporarily unavailable"
MsgProfileFailed == "Failed to load user profile after multiple attempts"
MsgRetryFailed == "Connection retry failed"
\* Who called createOrUpdateUserDoc: the onAuthStateChanged callback, or
\* retryConnection (isRetry = true).
Callers == {"listener", "retry"}
\* error.code of a rejected Firestore call
FirestoreCodes == {"unavailable", "permission-denied"}

\* A run of createOrUpdateUserDoc (or, for "retry", of retryConnection):
\* where it waits, retryCount, and what it has done: the passes through the
\* try block, the code of the last error, how it ended.
IdleCall ==
    [pc |-> "idle", retryCount |-> 0, attempts |-> 0, lastError |-> "none",
     outcome |-> "none", user |-> NoAuthUser]

\* createOrUpdateUserDoc is entered: retryCount = 0 < maxRetries, the first
\* pass through the try block awaits getDoc.
FirstAttempt(u) ==
    [pc |-> "try", retryCount |-> 0, attempts |-> 1, lastError |-> "none",
     outcome |-> "none", user |-> u]

RetryableAlways(code) == TRUE

\* if (error.code === 'unavailable')
Retryable(code) == code = "unavailable"

\* setLoading(false) of the listener follows the await of its call.
Finished(c, call) ==
    /\ docCalls' = [docCalls EXCEPT ![c] = call]
    /\ authProvider' =
          [authProvider EXCEPT
              !.loading = IF c = "listener" THEN FALSE ELSE @]

\* The frame of the AuthProvider's actions.
authFrame == <<pageVars, flowVars, consentVars, url, urlError, hookVars,
               netVars, histVars, respVars, timerVars, apiVars, dbVars,
               regVars>>

\* The callback of onAuthStateChanged: a signed-in user is stored and
\* createOrUpdateUserDoc is called; on sign-out the three states are
\* cleared and loading ends.
AuthStateChanged ==
    /\ \E u \in AuthUsers \cup {NoAuthUser} :
        /\ u # authProvider.user \/ authProvider.loading
        /\ IF u # NoAuthUser
           THEN /\ docCalls["listener"].pc = "idle"
                /\ authProvider' = [authProvider EXCEPT !.user = u]
                /\ docCalls' = [docCalls EXCEPT !["listener"] = FirstAttempt(u)]
                /\ UNCHANGED traceLensUser
           ELSE /\ authProvider' = [user |-> NoAuthUser, loading |-> FALSE,
                                    firestoreError |-> NoFirestoreError]
                /\ traceLensUser' = NoUser
                /\ UNCHANGED docCalls
    /\ UNCHANGED authFrame

\* createOrUpdateUserDoc after the awaits of one pass through the try
\* block.  "loaded": the document was written and read back; "missing": it
\* was written but updatedDoc.exists() is false; else a call rejected with
\* that code and the catch block ran up to its first await or to the end.
AttemptSettled(c) ==
    /\ docCalls[c].pc = "try"
    /\ \E result \in {"loaded", "missing"} \cup FirestoreCodes :
        LET call == docCalls[c]
            n == call.retryCount + 1
            ended(outcome, code, count) ==
                [call EXCEPT !.pc = "idle", !.retryCount = count,
                             !.lastError = code, !.outcome = outcome]
        IN
        CASE result = "loaded" ->
                /\ \E profile \in Profiles : traceLensUser' = profile
                /\ docCalls' = [docCalls EXCEPT
                                   ![c] = ended("loaded", "none", call.retryCount)]
                /\ authProvider' =
                      [authProvider EXCEPT
                          !.firestoreError = NoFirestoreError,
                          !.loading = IF c = "listener" THEN FALSE ELSE @]
          [] result = "missing" ->
                /\ Finished(c, ended("missing", "none", call.retryCount))
                /\ UNCHANGED traceLensUser
          [] OTHER ->
                /\ UNCHANGED traceLensUser
                /\ IF ~Retryable(result)
                   THEN Finished(c, ended("error", result, n))
                   ELSE IF n < maxRetries
                   THEN /\ docCalls' = [docCalls EXCEPT
                                           ![c] = [call EXCEPT
                                                      !.pc = "wait",
                                                      !.retryCount = n,
                                                      !.lastError = result]]
                        /\ authProvider' =
                              [authProvider EXCEPT
                                  !.firestoreError = MsgUnavailable]
                   ELSE /\ docCalls' = [docCalls EXCEPT
                                           ![c] = ended("gaveUp", result, n)]
                        /\ authProvider' =
                              [authProvider EXCEPT
                                  !.firestoreError = MsgProfileFailed,
                                  !.loading = IF c = "listener" THEN FALSE ELSE @]
    /\ UNCHANGED authFrame

\* The backoff of the catch block has elapsed: enableNetwork is awaited.
BackoffElapsed(c) ==
    /\ docCalls[c].pc = "wait"
    /\ docCalls' = [docCalls EXCEPT ![c].pc = "enableNetwork"]
    /\ UNCHANGED <<authProvider, traceLensUser, authFrame>>

\* enableNetwork settled (its rejection is caught and logged): retryCount
\* is below maxRetries, the loop enters the try block again.
EnableNetworkSettled(c) ==
    /\ docCalls[c].pc = "enableNetwork"
    /\ docCalls' = [docCalls EXCEPT ![c].pc = "try",
                                    ![c].attempts = @ + 1]
    /\ UNCHANGED <<authProvider, traceLensUser, authFrame>>

\* ConnectionStatus.handleRetry and retryConnection up to the await of
\* enableNetwork.  The banner is rendered while firestoreError is set, its
\* button is disabled while isRetrying.
RetryConnection ==
    /\ authProvider.firestoreError # NoFirestoreError
    /\ docCalls["retry"].pc = "idle"
    /\ docCalls' = [docCalls EXCEPT
                       !["retry"] = [IdleCall EXCEPT !.pc = "retryEnable",
                                                     !.user = authProvider.user]]
    /\ UNCHANGED <<authProvider, traceLensUser, authFrame>>

\* retryConnection after the await of enableNetwork: the error is cleared
\* and createOrUpdateUserDoc(user, true) is called with the user of the
\* render the click happened in; a rejection sets the retry message.
RetryEnableSettled ==
    /\ docCalls["retry"].pc = "retryEnable"
    /\ \E resolved \in BOOLEAN :
        IF resolved
        THEN /\ authProvider' = [authProvider EXCEPT
                                    !.firestoreError = NoFirestoreError]
             /\ docCalls' = [docCalls EXCEPT
                    !["retry"] = IF docCalls["retry"].user # NoAuthUser
                                 THEN FirstAttempt(docCalls["retry"].user)
                                 ELSE IdleCall]
        ELSE /\ authProvider' = [authProvider EXCEPT
                                    !.firestoreError = MsgRetryFailed]
             /\ docCalls' = [docCalls EXCEPT !["retry"] = IdleCall]
    /\ UNCHANGED <<traceLensUser, authFrame>>

NextAuth ==
    \/ AuthStateChanged
    \/ \E c \in Callers : AttemptSettled(c)
    \/ \E c \in Callers : BackoffElapsed(c)
    \/ \E c \in Callers : EnableNetworkSettled(c)
    \/ RetryConnection
    \/ RetryEnableSettled

\* Every promise createOrUpdateUserDoc and retryConnection await settles:
\* the Firestore client resolves or rejects each call, the backoff timer
\* fires.
AuthFairness ==
    /\ \A c \in Callers :
        /\ WF_vars(AttemptSettled(c))
        /\ WF_vars(BackoffElapsed(c))
        /\ WF_vars(EnableNetworkSettled(c))
    /\ WF_vars(RetryEnableSettled)

\* no request of the registration page is in flight
NoAuthReq == [kind |-> "none"]

(***************************************************************************)
(* AuthenticationFlow, the registration page: register, verify the e-mail  *)
(* with the code that was sent, ask for a new code.  Every button is       *)
(* disabled while isLoading, so one request is in flight at a time.        *)
(***************************************************************************)
\* useState(3) and setRemainingAttempts(3)
InitialAttempts == 3
\* Successful registrations followed on one page.
MaxRegistrations == 3
\* The length of the verification code field: empty, partial, six digits.
CodeLengths == {0, 3, 6}
\* What an awaited call of authAPI does: resolves with success, resolves
\* without it, rejects.
AuthOutcomes == {"ok", "nack", "err"}

\* The state of the component when it mounts.
InitialAuthFlow ==
    [currentStep |-> "register", recaptchaToken |-> FALSE,
     verification_id |-> FALSE, verificationCode |-> 0,
     isLoading |-> FALSE, remainingAttempts |-> InitialAttempts]

\* What happened on the page: the successful registrations, and the
\* verifications that failed since a code was last sent.
NoCodeHistory == [registrations |-> 0, failures |-> 0]

\* The frame of the page's actions.
regFrame == <<uiVars, timerVars, apiVars, dbVars, authVars>>

\* The reCAPTCHA widget calls onChange with a token, or with null when the
\* token expires.
RecaptchaChange ==
    /\ authFlow.currentStep = "register"
    /\ \E token \in BOOLEAN : authFlow' = [authFlow EXCEPT !.recaptchaToken = token]
    /\ UNCHANGED <<authReq, codeHistory, regFrame>>

\* The onChange handler of the code field.
TypeCode ==
    /\ authFlow.currentStep = "verify-email"
    /\ \E len \in CodeLengths : authFlow' = [authFlow EXCEPT !.verificationCode = len]
    /\ UNCHANGED <<authReq, codeHistory, regFrame>>

\* handleRegistration up to its await; the button is disabled without a
\* token, mismatching passwords return with a toast.
SubmitRegistration ==
    /\ authFlow.currentStep = "register"
    /\ ~authFlow.isLoading
    /\ authFlow.recaptchaToken
    /\ codeHistory.registrations < MaxRegistrations
    /\ \E passwordsMatch \in BOOLEAN :
        IF passwordsMatch
        THEN /\ authFlow' = [authFlow EXCEPT !.isLoading = TRUE]
             /\ authReq' = [kind |-> "register"]
        ELSE UNCHANGED <<authFlow, authReq>>
    /\ UNCHANGED <<codeHistory, regFrame>>

\* handleRegistration after its await: a success stores the verification
\* id and shows the verification step.
RegistrationSettled ==
    /\ authReq.kind = "register"
    /\ \E outcome \in AuthOutcomes :
        IF outcome = "ok"
        THEN /\ authFlow' = [authFlow EXCEPT !.isLoading = FALSE,
                                             !.verification_id = TRUE,
                                             !.currentStep = "verify-email"]
             /\ codeHistory' = [registrations |-> codeHistory.registrations + 1,
                                failures |-> 0]
        ELSE /\ authFlow' = [authFlow EXCEPT !.isLoading = FALSE]
             /\ UNCHANGED codeHistory
    /\ authReq' = NoAuthReq
    /\ UNCHANGED regFrame

\* handleEmailVerification up to its await; the button is disabled unless
\* the field holds six digits.  remainingAttempts is the value of the
\* render the click happened in.
SubmitVerification ==
    /\ authFlow.currentStep = "verify-email"
    /\ ~authFlow.isLoading
    /\ authFlow.verificationCode = 6
    /\ authFlow' = [authFlow EXCEPT !.isLoading = TRUE]
    /\ authReq' = [kind |-> "verify",
                   remainingAttempts |-> authFlow.remainingAttempts]
    /\ UNCHANGED <<codeHistory, regFrame>>

\* if (remainingAttempts <= 1)
TooManyAttempts(remaining) == remaining <= 1

\* handleEmailVerification after its await: a success completes the flow;
\* a rejection takes one attempt away and, when the attempts of the click's
\* render were down to one, goes back to the registration step.
VerificationSettled ==
    /\ authReq.kind = "verify"
    /\ \E outcome \in AuthOutcomes :
        CASE outcome = "ok" ->
                /\ authFlow' = [authFlow EXCEPT !.isLoading = FALSE,
                                                !.currentStep = "complete"]
                /\ UNCHANGED codeHistory
          [] outcome = "nack" ->
                /\ authFlow' = [authFlow EXCEPT !.isLoading = FALSE]
                /\ UNCHANGED codeHistory
          [] OTHER ->
                /\ authFlow' =
                      [authFlow EXCEPT
                          !.isLoading = FALSE,
                          !.remainingAttempts = @ - 1,
                          !.currentStep =
                              IF TooManyAttempts(authReq.remainingAttempts)
                              THEN "register" ELSE @]
                /\ codeHistory' = [codeHistory EXCEPT !.failures = @ + 1]
    /\ authReq' = NoAuthReq
    /\ UNCHANGED regFrame

\* handleResendVerification up to its await.
ResendVerification ==
    /\ authFlow.currentStep = "verify-email"
    /\ ~authFlow.isLoading
    /\ authFlow' = [authFlow EXCEPT !.isLoading = TRUE]
    /\ authReq' = [kind |-> "resend"]
    /\ UNCHANGED <<codeHistory, regFrame>>

\* handleResendVerification after its await: a success stores the new
\* verification id and restores the attempts.
ResendSettled ==
    /\ authReq.kind = "resend"
    /\ \E outcome \in AuthOutcomes :
        IF outcome = "ok"
        THEN /\ authFlow' = [authFlow EXCEPT !.isLoading = FALSE,
                                             !.verification_id = TRUE,
                                             !.remainingAttempts = InitialAttempts]
             /\ codeHistory' = [codeHistory EXCEPT !.failures = 0]
        ELSE /\ authFlow' = [authFlow EXCEPT !.isLoading = FALSE]
             /\ UNCHANGED codeHistory
    /\ authReq' = NoAuthReq
    /\ UNCHANGED regFrame

NextReg ==
    \/ RecaptchaChange
    \/ TypeCode
    \/ SubmitRegistration
    \/ RegistrationSettled
    \/ SubmitVerification
    \/ VerificationSettled
    \/ ResendVerification
    \/ ResendSettled

PageUnload ==
    /\ Unload
    /\ UNCHANGED <<flowVars, consentVars, pollVars, respVars, timerVars,
                   apiVars, dbVars, authVars, regVars>>

Init ==
    /\ pageAlive = TRUE
    /\ navPending = FALSE
    /\ redirects = 0
    /\ currentStage = "input"
    /\ analysisData = [target |-> [len |-> 0, trimmed |-> 0],
                       useCase |-> [len |-> 0, trimmed |-> 0]]
    /\ consentProcessId = ""
    /\ progress = 0
    /\ flowIsLoading = FALSE
    /\ results = FALSE
    /\ processingSteps = 0
    /\ analyzeReq = 0
    /\ consentSteps = [i \in StepIndexes |-> FALSE]
    /\ currentStep = 0
    /\ consentIsLoading = FALSE
    /\ processId = ""
    /\ initReq = FALSE
    /\ consentReq = NoReq
    /\ backendConsent = [i \in StepIndexes |-> FALSE]
    /\ lastOutcome = "none"
    /\ completeCalls = 0
    /\ analyzeCalls = 0
    /\ url = <<>>
    /\ urlError = ""
    /\ traceLensUser = NoUser
    /\ currentSession = NoSession
    /\ isLoading = FALSE
    /\ error = "none"
    /\ isPolling = FALSE
    /\ pollingIntervalRef = NoJob
    /\ maxPollAttemptsRef = 0
    /\ timeoutPending = {}
    /\ startReq = NoReq
    /\ statusReqs = [j \in Jobs |-> [s \in JobStatuses |-> 0]]
    /\ resultsReqs = [j \in Jobs |-> 0]
    /\ deleteReq = NoReq
    /\ serverStatus = [j \in Jobs |-> "none"]
    /\ jobsStarted = 0
    /\ stopSeen = {}
    /\ completedSeen = {}
    /\ cancelled = {}
    /\ resultsSent = [j \in Jobs |-> 0]
    /\ lastPost = NoPost
    /\ submitted = FALSE
    /\ lastFailure = NoFailure
    /\ resultsSeen = {}
    /\ failStreak = 0
    /\ clock = 0
    /\ pollStart = Never
    /\ timeoutAt = Never
    /\ intervalAt = Never
    /\ requestTimes = <<>>
    /\ apiError = NoApiError
    /\ toastFirst = ""
    /\ toastSecond = ""
    /\ dbNow = 0
    /\ users = {}
    /\ temporaryAnalyses = {}
    /\ userSessions = {}
    /\ auditLogs = InitialAuditLog
    /\ consentLogs = {}
    /\ nextRowId = 1
    /\ lastCall = NoCall
    /\ authProvider = [user |-> NoAuthUser, loading |-> TRUE,
                       firestoreError |-> NoFirestoreError]
    /\ docCalls = [c \in Callers |-> IdleCall]
    /\ authFlow = InitialAuthFlow
    /\ authReq = NoAuthReq
    /\ codeHistory = NoCodeHistory

\* The analysis flow page.
NextFlow ==
    \/ EditInput
    \/ HandleInputSubmit
    \/ InitConsentResponse
    \/ ConsentClick
    \/ ConsentResponse
    \/ AnalysisResponse
    \/ PageUnload

SpecFlow == Init /\ [][NextFlow]_vars

\* The dashboard's form: any input, any profile.
NextDash ==
    \/ TypeUrl(UrlInputs)
    \/ ProfileLoaded(Profiles)
    \/ ClickStart(MaxJobs)
    \/ StartResponse
    \/ PageUnload

SpecDash == Init /\ [][NextDash]_vars

\* The dashboard with a job being polled, up to MaxTicks polls.
Next ==
    \/ TypeUrl({GoodUrl})
    \/ ProfileLoaded({PaidProfile})
    \/ ClickStart(MaxJobs)
    \/ StartResponse
    \/ TimeoutFire(MaxTicks)
    \/ IntervalFire(MaxTicks)
    \/ StatusResponse(HttpOutcomes)
    \/ ResultsResponse(ResultsOutcomes)
    \/ ClearSession
    \/ DeleteClick
    \/ DeleteResponse
    \/ ServerAdvance({"completed", "failed"})
    \/ PageUnload

Spec == Init /\ [][Next]_vars

\* A job that never finishes on the backend, polled up to the ceiling.
NextCeiling ==
    \/ TypeUrl({GoodUrl})
    \/ ProfileLoaded({PaidProfile})
    \/ ClickStart(MaxJobs)
    \/ StartResponse
    \/ TimeoutFire(PollCeiling + CeilingSlack)
    \/ IntervalFire(PollCeiling + CeilingSlack)
    \/ StatusResponse({"ok", "err"})
    \/ ServerAdvance({})

SpecCeiling == Init /\ [][NextCeiling]_vars

\* Starting again while a job is being polled: every status check is
\* answered, no job finishes.
NextRestart ==
    \/ TypeUrl({GoodUrl})
    \/ ProfileLoaded({PaidProfile})
    \/ ClickStart(MaxJobs + MaxRestarts)
    \/ StartResponse
    \/ TimeoutFire(MaxTicks)
    \/ IntervalFire(MaxTicks)
    \/ StatusResponse({"ok"})
    \/ ServerAdvance({})

SpecRestart == Init /\ [][NextRestart]_vars

SpecTimers == Init /\ [][NextTimers]_vars

SpecApi == Init /\ [][NextApi]_vars

SpecDb == Init /\ [][NextDb]_vars

SpecLogs == Init /\ [][NextLogs]_vars

SpecAuth == Init /\ [][NextAuth]_vars

SpecReg == Init /\ [][NextReg]_vars

\* The AuthProvider with every awaited promise settling.
SpecAuthLive == SpecAuth /\ AuthFairness

(***************************************************************************)
(* Claims about the consent gate                                           *)
(***************************************************************************)
RequiredGranted == \A i \in StepIndexes : Required(i) => consentSteps[i]

\* C1: the stage is never 'processing' (or beyond), and POST /api/analyze is
\* never sent, while a required consent item is not granted, whatever
\* grants and withdrawals of required and optional items came before.
C1_NoProcessingWithoutRequiredConsent ==
    (currentStage \in {"processing", "complete"} \/ analyzeCalls > 0 \/ analyzeReq > 0)
        => RequiredGranted

\* C1 witness: the flow reached 'processing' after an optional item was
\* granted and withdrawn again.
C1_Witness ==
    /\ currentStage = "processing"
    /\ analyzeCalls = 1
    /\ backendConsent[3]
    /\ ~consentSteps[4]
    /\ lastOutcome = "ok"

\* C2: onConsentComplete is invoked exactly once per flow: never twice, and
\* it has been invoked (with the stage moved on and performAnalysis called
\* once) exactly when all required items are granted.
C2_ConsentCompleteExactlyOnce ==
    /\ completeCalls <= 1
    /\ analyzeCalls = completeCalls
    /\ (completeCalls = 1) <=> RequiredGranted
    /\ (completeCalls = 1) <=> (currentStage \in {"processing", "complete"})

\* C2 witness: the required items were granted ending with the first one
\* (currentStep never advanced past it), with an optional grant interleaved.
C2_Witness ==
    /\ completeCalls = 1
    /\ currentStep = 1
    /\ consentSteps[4]
    /\ RequiredGranted

\* C3: a failed processConsentStep (rejected call, or success = false) leaves
\* every granted flag, currentStep and the completion callback untouched, and
\* a step is granted locally only if the backend acknowledged the grant.
C3_FailedWriteChangesNothing ==
    /\ [](\A i \in StepIndexes : consentSteps[i] => backendConsent[i])
    /\ [][(consentReq # NoReq /\ consentReq' = NoReq /\ lastOutcome' # "ok")
            => /\ consentSteps' = consentSteps
               /\ currentStep' = currentStep
               /\ completeCalls' = completeCalls
               /\ currentStage' = currentStage]_vars

\* C3 witness: a grant of the highlighted step was refused with success =
\* false and the step is still not granted.
C3_Witness ==
    /\ lastOutcome = "nack"
    /\ consentReq = NoReq
    /\ currentStep = 1
    /\ ~consentSteps[1]
    /\ consentSteps[0]

(***************************************************************************)
(* Claims about the job poller                                             *)
(***************************************************************************)
\* This step sends a status request for job j.
StatusSent(j) == \E s \in JobStatuses : statusReqs'[j][s] > statusReqs[j][s]

\* This step sends a results request for job j.
ResultsSent(j) == resultsReqs'[j] > resultsReqs[j]

\* C4: once a status response reported 'completed' or 'failed', or the
\* ceiling branch ran, no further status request is sent for that job, also
\* while the results fetch is in flight.
C4_NoStatusRequestAfterTerminal ==
    [][\A j \in Jobs : j \in stopSeen => ~StatusSent(j)]_vars

\* C5: after clearSession or a successful delete of the current session no
\* timer of startPolling remains pending for the job, and no further status
\* or results request is sent for it.
C5_NoRequestAfterCancel ==
    /\ [](\A j \in cancelled : j \notin timeoutPending /\ pollingIntervalRef # j)
    /\ [][\A j \in cancelled : ~StatusSent(j) /\ ~ResultsSent(j)]_vars

\* C6: after clearSession or a successful delete of the current session,
\* currentSession stays null until the next start succeeds.
C6_SessionStaysCleared ==
    jobsStarted \in cancelled => currentSession = NoSession

\* C7: for a job whose status reported 'completed' the results endpoint is
\* requested exactly once, and only after the 'completed' response.
C7_ResultsFetchedExactlyOnce ==
    \A j \in Jobs :
        /\ j \in completedSeen => resultsSent[j] = 1
        /\ resultsSent[j] > 0 => j \in completedSeen

\* C8: 401 responses cause one redirect to the login route, not more.
C8_RedirectOnce == redirects <= 1

\* The inputs C9 is about: empty, blank, or not starting with a scheme.
Malformed(u) ==
    \/ Len(u) = 0
    \/ Len(Trim(u)) = 0
    \/ ~StartsWith(u, HTTP) /\ ~StartsWith(u, HTTPS)

\* C9: an empty, blank or scheme-less URL never reaches POST
\* /api/analysis/start: the submit button is disabled or the submission
\* leaves the validation message.
C9_MalformedUrlNeverPosted ==
    /\ lastPost # NoPost => ~Malformed(lastPost)
    /\ startReq # NoReq => (StartsWith(startReq.url, HTTP) \/ StartsWith(startReq.url, HTTPS))
    /\ (submitted /\ Malformed(url)) => (urlError = MsgInvalidUrl /\ startReq = NoReq)

\* C9 witness: a URL with a leading blank was submitted and refused, with a
\* profile that may start analyses.
C9_Witness ==
    /\ submitted
    /\ url = <<" ">> \o HTTPS \o <<"x">>
    /\ urlError = MsgInvalidUrl
    /\ traceLensUser = PaidProfile
    /\ lastPost = NoPost

C11_FailedMessageVerbatim ==
    [][/\ (lastFailure' # lastFailure /\ lastFailure'.error # "")
          => /\ error' = lastFailure'.error
             /\ currentSession'.id = lastFailure'.job
             /\ currentSession'.status = "failed"
             /\ currentSession'.error = lastFailure'.error
             /\ pollingIntervalRef' = NoJob
             /\ ~isPolling'
       /\ \A j \in Jobs : lastFailure.job = j => ~StatusSent(j)]_vars

\* C11 witness: the job failed with the backend's message, which is shown.
C11_Witness ==
    /\ lastFailure = [job |-> 1, error |-> "scrape blocked"]
    /\ error = "scrape blocked"
    /\ currentSession.id = 1
    /\ currentSession.status = "failed"
    /\ pollingIntervalRef = NoJob

\* The session is in the 'results available' state.
ResultsAvailable ==
    /\ currentSession # NoSession
    /\ currentSession.status = "completed"
    /\ currentSession.results.present

\* C12: the session is in the 'results available' state only if a status
\* request returned 'completed' for that job and its results request then
\* succeeded with a payload; a failed or empty results fetch shows nothing.
C12_ResultsOnlyAfterBothCalls ==
    /\ ResultsAvailable => /\ currentSession.id \in completedSeen
                           /\ currentSession.id \in resultsSeen
    /\ resultsSeen \subseteq completedSeen
    /\ \A j \in resultsSeen : resultsSent[j] > 0

\* C12 witness: results are displayed for the first job.
C12_Witness ==
    /\ ResultsAvailable
    /\ currentSession.id = 1
    /\ currentSession.results.hasScore
    /\ resultsReqs[1] = 0

\* C13: no status request is sent before the initial delay has passed since
\* the start, and every later status request follows the previous one by the
\* fixed interval.
C13_FixedIntervalBetweenRequests ==
    \A i \in 1..Len(requestTimes) :
        IF i = 1
        THEN requestTimes[i] >= pollStart + InitialDelay
        ELSE requestTimes[i] = requestTimes[i - 1] + PollInterval

\* C13 as the timers implement it: the first status request is sent when the
\* initial delay has passed since the start; the interval runs from the
\* start too, so the k-th later request is sent k intervals after the start,
\* the first of them one interval minus the initial delay after the first
\* request, and each further one a full interval after its predecessor.
C13_RequestSchedule ==
    /\ (pollStart # Never /\ clock < pollStart + InitialDelay)
           => requestTimes = <<>>
    /\ \A i \in 1..Len(requestTimes) :
        /\ i = 1 => requestTimes[i] = pollStart + InitialDelay
        /\ i > 1 => requestTimes[i] = pollStart + (i - 1) * PollInterval
        /\ i = 2 => requestTimes[i] - requestTimes[i - 1]
                      = PollInterval - InitialDelay
        /\ i > 2 => requestTimes[i] - requestTimes[i - 1] = PollInterval

\* C13 witness: a job started after time 0 has sent three status requests.
C13_Witness ==
    /\ pollStart > 0
    /\ Len(requestTimes) = 3
    /\ requestTimes[3] = pollStart + 2 * PollInterval

\* C14: polling is aborted by failed status checks only after
\* FailureThreshold consecutive failed checks.
C14_AbortOnlyAfterConsecutiveFailures ==
    error = MsgConnection => failStreak >= FailureThreshold

\* C15: a displayed results payload with a numeric privacy score shows
\* exactly that number in the privacy score field, 0 included.
C15_PrivacyScoreUnmodified ==
    (ResultsAvailable /\ currentSession.results.hasScore)
        => PrivacyScoreField(currentSession.results)
             = [text |-> "number", number |-> currentSession.results.privacy_score]

\* The toast shown for a rejection belongs to the class the claim names for it.
Classified(e, toast) ==
    /\ e.kind = "response" =>
        /\ e.status = 401 => toast = MsgSessionExpired
        /\ e.status = 403 => toast = MsgAccessDenied
        /\ e.status = 404 => toast = MsgNotFound
        /\ e.status = 429 => toast \in {MsgRateLimit, e.dataError} \ {NoToast}
        /\ e.status \in ServerErrorStatuses => toast = MsgServerError
    /\ e.kind = "transport" =>
        /\ e.code = "ECONNABORTED" => toast = MsgRequestTimeout
        /\ e.code = "ERR_NETWORK" => toast = MsgNetwork

\* C16: the handler shows, for status 401, 403, 404, 429 and every 5xx
\* status, the notification of that class (one server error message for
\* all 5xx), and the timeout and network notifications for transport errors.
C16_EveryClassNotified ==
    apiError # NoApiError => /\ Classified(apiError, toastFirst)
                             /\ Classified(apiError, toastSecond)

\* C17: right after a call of perform_maintenance_cleanup at time now,
\* temporary_analyses holds no row with expires_at <= now and no row with
\* status 'expired'.
C17_MaintenanceRemovesExpired ==
    lastCall.name = "perform_maintenance_cleanup"
        => \A r \in temporaryAnalyses :
               r.expires_at > dbNow /\ r.status # "expired"

\* C18 as claimed: every temporary_analyses and user_sessions row has
\* expires_at > created_at, and an analysis inserted without an explicit
\* expiry has expires_at = created_at + 24 hours.
C18_DefaultExpiryFromCreatedAt ==
    /\ \A r \in temporaryAnalyses \cup userSessions :
           r.expires_at > r.created_at
    /\ \A r \in temporaryAnalyses :
           r.defaultExpiry => r.expires_at = r.created_at + TTLHours

\* C18 as the schema has it: every temporary_analyses and user_sessions row
\* has expires_at > created_at under every insert, update and maintenance
\* operation; an analysis inserted with neither created_at nor expires_at
\* given has expires_at = created_at + 24 hours (both defaults are taken
\* from the NOW() of the insert).
C18_ExpiresAfterCreated ==
    /\ \A r \in temporaryAnalyses \cup userSessions :
           r.expires_at > r.created_at
    /\ \A r \in temporaryAnalyses :
           (r.defaultExpiry /\ r.defaultCreated)
               => r.expires_at = r.created_at + TTLHours

\* C18 witness: an analysis inserted with both defaults after time 0 is in
\* the table, and has outlived a maintenance run.
C18_Witness ==
    /\ \E r \in temporaryAnalyses :
           r.defaultExpiry /\ r.defaultCreated /\ r.created_at > 0
    /\ lastCall.name = "perform_maintenance_cleanup"

C20_LogsAppendOnly ==
    [][/\ Len(auditLogs') >= Len(auditLogs)
       /\ \A i \in DOMAIN auditLogs : auditLogs'[i] = auditLogs[i]
       /\ \A r \in consentLogs :
            \/ r \in consentLogs'
            \/ /\ r.expires_at # Never
               /\ r.expires_at <= dbNow
               /\ [r EXCEPT !.consent_status = "expired",
                            !.updated_at = dbNow] \in consentLogs']_vars

(***************************************************************************)
(* Claims about the stage of the analysis flow                             *)
(***************************************************************************)
\* C21: the stage only advances input -> consent -> processing -> complete,
\* one stage at a time, never backwards and never skipping one; 'complete'
\* is entered only by the continuation of an analysis request that returned
\* an approved result, together with storing the results.
C21_StageAdvancesOneAtATime ==
    [][currentStage' # currentStage
          => /\ <<currentStage, currentStage'>> \in
                    { <<"input", "consent">>, <<"consent", "processing">>,
                      <<"processing", "complete">> }
             /\ currentStage' = "complete"
                    => /\ analyzeReq > 0
                       /\ analyzeReq' = analyzeReq - 1
                       /\ progress' = 100
                       /\ results']_vars

\* C21 witness: the flow went through every stage and shows the stored
\* results of the one analysis request it sent.
C21_Witness ==
    /\ currentStage = "complete"
    /\ results
    /\ analyzeCalls = 1
    /\ analyzeReq = 0

(***************************************************************************)
(* Claims about starting an analysis                                       *)
(***************************************************************************)
\* The continuation of startAnalysis ran: the start request was answered.
StartAnswered == startReq # NoReq /\ startReq' = NoReq

\* C22: when the start request is answered, startAnalysis creates the
\* current session (the new job's id, status 'pending', nothing else yet)
\* and starts polling (isPolling, a fresh attempt counter, the interval and
\* the timeout of that job) if and only if the response reported success
\* with the id of a job the backend created; otherwise it sets the error
\* message, leaves session, polling state and the URL field as they were
\* (the rethrown error skips handleStartAnalysis's setUrl), and isLoading is
\* false again in both cases.
C22_SessionIffStartAccepted ==
    [][StartAnswered
          => /\ ~isLoading'
             /\ IF jobsStarted' # jobsStarted
                THEN /\ currentSession' = Session(jobsStarted', "pending")
                     /\ serverStatus'[jobsStarted'] = "pending"
                     /\ isPolling'
                     /\ pollingIntervalRef' = jobsStarted'
                     /\ jobsStarted' \in timeoutPending'
                     /\ maxPollAttemptsRef' = 0
                     /\ error' = "none"
                     /\ url' = <<>>
                ELSE /\ error' \in (BackendErrors \ {""}) \cup {MsgStartFailed}
                     /\ UNCHANGED <<currentSession, isPolling,
                                    pollingIntervalRef, timeoutPending,
                                    maxPollAttemptsRef, url>>]_vars

\* C22 witness: a start was rejected with the backend's message: the hook
\* shows it, is idle again, and has no session and no polling.
C22_Witness ==
    /\ lastPost # NoPost
    /\ startReq = NoReq
    /\ error = "scrape blocked"
    /\ ~isLoading
    /\ currentSession = NoSession
    /\ ~isPolling
    /\ timeoutPending = {}

(***************************************************************************)
(* Claims about the session the hook shows                                 *)
(***************************************************************************)
\* C23: once the current session shows 'completed' or 'failed' for a job,
\* the status it shows for that job never changes again, whatever order the
\* responses of overlapping status requests arrive in.
C23_TerminalStatusIsFinal ==
    [][(/\ currentSession # NoSession
        /\ currentSession.status \in {"completed", "failed"}
        /\ currentSession'.id = currentSession.id)
          => currentSession'.status = currentSession.status]_vars

(***************************************************************************)
(* Claims about the cleanup of sessions                                    *)
(***************************************************************************)
\* C24: when cleanup_expired_sessions() has completed at NOW(), every
\* user_sessions row left has expires_at > NOW() and is_active = TRUE, the
\* deleted_count it returns is the number of rows it removed, and no row
\* that was active and unexpired was removed.
C24_SessionCleanupExact ==
    [][lastCall'.name = "cleanup_expired_sessions"
          => /\ \A r \in userSessions' : r.expires_at > dbNow /\ r.is_active
             /\ userSessions' \subseteq userSessions
             /\ lastCall'.deleted_count =
                    Cardinality(userSessions \ userSessions')
             /\ \A r \in userSessions :
                    (r.expires_at > dbNow /\ r.is_active)
                        => r \in userSessions']_vars

\* C24 witness: cleanup_expired_sessions() has just removed a session that
\* had been deactivated before it expired.
C24_Witness ==
    /\ lastCall.name = "cleanup_expired_sessions"
    /\ lastCall.deleted_count = 1
    /\ userSessions = {}
    /\ dbNow = 0

(***************************************************************************)
(* Claims about the daily limit                                            *)
(***************************************************************************)
\* The profile the dashboard renders with is missing, or is a free one
\* that has used up the day's analyses.
MayNotStart ==
    \/ traceLensUser = NoUser
    \/ /\ traceLensUser.subscriptionTier = "free"
       /\ traceLensUser.dailyUsage >= DailyLimit

C27_AtMostCeilingRequests ==
    jobsStarted <= 1 => maxPollAttemptsRef <= PollCeiling

(***************************************************************************)
(* Claims about starting again                                             *)
(***************************************************************************)
\* C26: whenever there is a current session it is that of the most recently
\* started analysis, and a status request sent for an earlier job (by a
\* timer that job left behind) does not advance the attempt counter, which
\* belongs to the new job.
C26_SessionIsLatestJob ==
    /\ [](currentSession # NoSession => currentSession.id = jobsStarted)
    /\ [][\A j \in Jobs :
            (j # jobsStarted /\ statusReqs'[j] # statusReqs[j]
                /\ InFlight' > InFlight)
                => maxPollAttemptsRef' = maxPollAttemptsRef]_vars

(***************************************************************************)
(* Claims about loading the user profile                                   *)
(***************************************************************************)
\* C28: createOrUpdateUserDoc always terminates, after at most 3 passes
\* through its try block: a further pass is made only after an error whose
\* code is 'unavailable', and a pass that succeeds or fails with any other
\* code is the last one.
C28_AtMostThreeAttempts ==
    /\ [](\A c \in Callers : docCalls[c].attempts <= 3)
    /\ [][\A c \in Callers :
            /\ (docCalls[c].attempts >= 1
                    /\ docCalls'[c].attempts = docCalls[c].attempts + 1)
                  => docCalls[c].lastError = "unavailable"
            /\ (docCalls[c].pc = "try" /\ docCalls'[c].pc # "try"
                    /\ docCalls'[c].lastError # "unavailable")
                  => docCalls'[c].pc = "idle"]_vars
    /\ (docCalls["listener"].pc # "idle") ~> (docCalls["listener"].pc = "idle")
    /\ (docCalls["retry"].pc # "idle") ~> (docCalls["retry"].pc = "idle")

\* C28 witness: the call of the auth listener was refused twice with
\* 'unavailable' and loaded the profile on its third attempt.
C28_Witness ==
    /\ docCalls["listener"].pc = "idle"
    /\ docCalls["listener"].attempts = 3
    /\ docCalls["listener"].outcome = "loaded"
    /\ traceLensUser # NoUser

\* C29: whenever createOrUpdateUserDoc finishes for a signed-in user
\* because of an error, without having loaded the profile, firestoreError
\* is set (the banner with its Retry button is rendered); whenever it
\* finishes with the profile loaded, firestoreError is null.
C29_ErrorShownWhenProfileMissing ==
    [][\A c \in Callers :
        (docCalls[c].pc = "try" /\ docCalls'[c].pc = "idle")
          => /\ (docCalls'[c].outcome \in {"error", "gaveUp"}
                    /\ authProvider'.user # NoAuthUser)
                  => authProvider'.firestoreError # NoFirestoreError
             /\ docCalls'[c].outcome = "loaded"
                  => authProvider'.firestoreError = NoFirestoreError]_vars

(***************************************************************************)
(* Claims about the registration flow                                      *)
(***************************************************************************)
\* C30: every successful registration or resend of the code gives exactly
\* 3 failed verification attempts before the flow returns to the
\* 'register' step (it returns on the third failure since the code was
\* sent, not before), and the remainingAttempts shown stays within 0..3.
C30_ThreeAttemptsPerCode ==
    /\ [](authFlow.remainingAttempts \in 0..3)
    /\ [](authFlow.currentStep = "verify-email" => codeHistory.failures < 3)
    /\ [][(authFlow.currentStep = "verify-email"
             /\ authFlow'.currentStep = "register")
              => codeHistory'.failures = 3]_vars

====
